---- MODULE Spec2Model ----
(***************************************************************************)
(* CrowdSpark backend (Backend/server.js): the identity routes (signup,    *)
(* login, protected) and the campaign upload route, as a state machine.    *)
(*                                                                         *)
(* Strings are sequences of one-character strings, so that the regular     *)
(* expressions, Number() and path.extname() are computed on the text.      *)
(* `undefined' (a field the request does not carry) is the one-element     *)
(* sequence <<"undefined">>, which is no text of the model.                *)
(*                                                                         *)
(* Environment assumptions: MongoDB is reachable, has built the unique     *)
(* indexes the schemas declare and performs each findOne / insert          *)
(* atomically; JWT_SECRET is set; a forger does not know JWT_SECRET.       *)
(***************************************************************************)
EXTENDS Integers, Sequences, FiniteSets

(***************************************************************************)
(* Bounds of the model.                                                    *)
(***************************************************************************)
\* upload requests handled in one behaviour (numbered in arrival order)
NumUploads == 2
\* last value of the millisecond clock in the upload behaviours
MaxClock == 1
\* signup requests handled in one behaviour
NumSignups == 2
\* clock advances in the identity behaviours
MaxElapse == 3

(***************************************************************************)
(* Text.                                                                   *)
(***************************************************************************)
undefined == <<"undefined">>

Upper == {"A","B","C","D","E","F","G","H","I","J","K","L","M",
          "N","O","P","Q","R","S","T","U","V","W","X","Y","Z"}
Lower == {"a","b","c","d","e","f","g","h","i","j","k","l","m",
          "n","o","p","q","r","s","t","u","v","w","x","y","z"}
Digit == {"0","1","2","3","4","5","6","7","8","9"}
\* \s of a JavaScript regular expression, over the model's alphabet
WhiteSpace == {" "}

\* a value of req.body as a regular expression or Number() sees it: String(v)
StringOf(v) ==
  IF v = undefined THEN <<"u","n","d","e","f","i","n","e","d">> ELSE v

\* JavaScript truthiness of a body field: undefined and "" are falsy
Truthy(v) == v # undefined /\ v # <<>>

AllIn(s, lo, hi, chars) == \A i \in lo..hi : s[i] \in chars
NoneIn(s, lo, hi, chars) == \A i \in lo..hi : s[i] \notin chars

\* /^[A-Z]{2}\d{2}$/.test(v)
IdRegexTest(v) ==
  LET s == StringOf(v) IN
  /\ Len(s) = 4
  /\ AllIn(s, 1, 2, Upper)
  /\ AllIn(s, 3, 4, Digit)

\* /^[^\s@]+@[^\s@]+\.[^\s@]+$/.test(v)
EmailRegexTest(v) ==
  LET s == StringOf(v)
      bad == WhiteSpace \cup {"@"}
  IN \E i \in 2..Len(s) : \E j \in (i + 2)..(Len(s) - 1) :
       /\ s[i] = "@"
       /\ s[j] = "."
       /\ NoneIn(s, 1, i - 1, bad)
       /\ NoneIn(s, i + 1, j - 1, bad)
       /\ NoneIn(s, j + 1, Len(s), bad)

\* /^[0-9+\-\s()]{10,}$/.test(v)
PhoneRegexTest(v) ==
  LET s == StringOf(v) IN
  /\ Len(s) >= 10
  /\ AllIn(s, 1, Len(s), Digit \cup WhiteSpace \cup {"+", "-", "(", ")"})

\* /^[a-zA-Z0-9._-]+@[a-zA-Z]{3,}$/.test(v)
UpiRegexTest(v) ==
  LET s == StringOf(v) IN
  \E i \in 2..(Len(s) - 3) :
    /\ s[i] = "@"
    /\ AllIn(s, 1, i - 1, Lower \cup Upper \cup Digit \cup {".", "_", "-"})
    /\ AllIn(s, i + 1, Len(s), Lower \cup Upper)

\* path.extname(name): from the last "." of the name, "" when there is none
\* or when the only one is the first character
ExtName(name) ==
  LET dots == {i \in 1..Len(name) : name[i] = "."} IN
  IF dots = {} THEN <<>>
  ELSE LET last == CHOOSE i \in dots : \A k \in dots : k <= i IN
       IF last = 1 THEN <<>> ELSE SubSeq(name, last, Len(name))

DigitValue(c) ==
  CASE c = "0" -> 0 [] c = "1" -> 1 [] c = "2" -> 2 [] c = "3" -> 3
    [] c = "4" -> 4 [] c = "5" -> 5 [] c = "6" -> 6 [] c = "7" -> 7
    [] c = "8" -> 8 [] c = "9" -> 9

RECURSIVE DecimalValue(_)
DecimalValue(s) ==
  IF s = <<>> THEN 0
  ELSE 10 * DecimalValue(SubSeq(s, 1, Len(s) - 1)) + DigitValue(s[Len(s)])

RECURSIVE Trim(_)
Trim(s) ==
  IF s # <<>> /\ s[1] \in WhiteSpace THEN Trim(Tail(s))
  ELSE IF s # <<>> /\ s[Len(s)] \in WhiteSpace
       THEN Trim(SubSeq(s, 1, Len(s) - 1))
       ELSE s

\* a JavaScript number: NaN, or the integer n
NaN == [isNaN |-> TRUE, n |-> 0]
Num(k) == [isNaN |-> FALSE, n |-> k]

\* Number(v) of a body field (the integer literals of StringToNumber: the
\* text is trimmed, "" is 0, an optional sign and decimal digits are the
\* number, anything else is NaN; Number(undefined) is NaN)
Number(v) ==
  LET t == Trim(StringOf(v))
      signed == t # <<>> /\ t[1] \in {"+", "-"}
      digits == IF signed THEN Tail(t) ELSE t
  IN IF v = undefined THEN NaN
     ELSE IF t = <<>> THEN Num(0)
     ELSE IF digits # <<>> /\ AllIn(digits, 1, Len(digits), Digit)
          THEN IF t[1] = "-" THEN Num(0 - DecimalValue(digits))
               ELSE Num(DecimalValue(digits))
          ELSE NaN

DefaultFundingGoal == 10000

\* the digits a text starts with
RECURSIVE LeadingDigits(_)
LeadingDigits(s) ==
  IF s # <<>> /\ s[1] \in Digit THEN <<s[1]>> \o LeadingDigits(Tail(s))
  ELSE <<>>

\* FundingGoalOf with parseInt in the place of Number: parseInt reads the
\* digits a text starts with and ignores the rest
FundingGoalParseInt(v) ==
  LET t == Trim(StringOf(v))
      negative == t # <<>> /\ t[1] = "-"
      digits == LeadingDigits(IF t # <<>> /\ t[1] \in {"+", "-"}
                              THEN Tail(t) ELSE t)
      k == DecimalValue(digits)
  IN IF v = undefined \/ digits = <<>> \/ k = 0 THEN DefaultFundingGoal
     ELSE IF negative THEN 0 - k ELSE k

\* Number(fundingGoal) || 10000
FundingGoalOf(v) ==
  IF Number(v).isNaN \/ Number(v).n = 0 THEN DefaultFundingGoal
  ELSE Number(v).n


DigitChar(d) ==
  CASE d = 0 -> "0" [] d = 1 -> "1" [] d = 2 -> "2" [] d = 3 -> "3"
    [] d = 4 -> "4" [] d = 5 -> "5" [] d = 6 -> "6" [] d = 7 -> "7"
    [] d = 8 -> "8" [] d = 9 -> "9"

\* the decimal text of a non-negative integer: Date.now() in a string sum
RECURSIVE DecimalText(_)
DecimalText(k) ==
  IF k < 10 THEN <<DigitChar(k)>>
  ELSE DecimalText(k \div 10) \o <<DigitChar(k % 10)>>

(***************************************************************************)
(* The submissions the upload route is given: the example submission of    *)
(* the specification, and the same with one or two fields changed.         *)
(***************************************************************************)
Base ==
  [projectId   |-> <<"A","B","1","2">>,
   name        |-> <<"T","e","s","t">>,
   details     |-> <<"x">>,
   email       |-> <<"a","@","b",".","c","o","m">>,
   phone       |-> <<"9","9","9","9","9","9","9","9","9","9">>,
   upiId       |-> <<"a","@","h","d","f","c">>,
   fundingGoal |-> <<"5","0","0","0">>,
   image       |-> <<"p",".","p","n","g">>]

\* one failing value for each of the checks 1, 2, 3, 4, 5 and 7, in the
\* order of the checks
OrderDeviations ==
  << <<"name", undefined>>,
     <<"projectId", <<"a","b","1","2">> >>,
     <<"email", <<"a","@","b">> >>,
     <<"phone", <<"9","9","9","9","9">> >>,
     <<"upiId", <<"a","@","h","d">> >>,
     <<"image", undefined>> >>

Deviations ==
  { OrderDeviations[i] : i \in 1..Len(OrderDeviations) } \cup
  { <<"projectId", <<"C","D","3","4">> >>,
    <<"details", <<>> >>,
    <<"fundingGoal", undefined>>,
    <<"fundingGoal", <<"0">> >>,
    <<"fundingGoal", <<"-","5">> >>,
    <<"fundingGoal", <<"1","2","a","b","c">> >> }

With(b, d) == [b EXCEPT ![d[1]] = d[2]]

\* b with the deviations i..j of OrderDeviations
RECURSIVE WithOrder(_, _, _)
WithOrder(b, i, j) ==
  IF i > j THEN b ELSE WithOrder(With(b, OrderDeviations[i]), i + 1, j)

\* the example, the example with one field changed, and the example failing
\* two consecutive checks, or all of them
Submissions ==
  {Base}
    \cup {With(Base, d) : d \in Deviations}
    \cup {WithOrder(Base, i, i + 1) : i \in 1..(Len(OrderDeviations) - 1)}
    \cup {WithOrder(Base, 1, Len(OrderDeviations))}

(***************************************************************************)
(* State.                                                                  *)
(***************************************************************************)
VARIABLES
  now,       \* Date.now(), in milliseconds
  projects,  \* the Project collection, in insertion order
  files,     \* the uploads folder: the names of the files in it
  up,        \* the upload requests: position in the handler, request, response
  users,     \* the User collection
  sg,        \* the signup requests
  issued,    \* the caller's session: the last token login returned, the
             \* email it was returned for and the clock reading then
  resp,      \* the response to the last login or protected request
  elapsed    \* clock advances so far (identity behaviours)

vars == <<now, projects, files, up, users, sg, issued, resp, elapsed>>
uploadVars == <<projects, files, up>>
authVars == <<users, sg, issued, resp, elapsed>>

UploadIds == 1..NumUploads

NoFile == [present |-> FALSE, originalname |-> <<>>, filename |-> <<>>]
Pending == [status |-> 0, message |-> ""]
Reply(code, text) == [status |-> code, message |-> text]

MsgAllFields == "All fields are required"
MsgBadId == "Invalid project ID format. It should be two uppercase letters followed by two digits."
MsgBadEmail == "Invalid email format"
MsgBadPhone == "Invalid phone number format"
MsgBadUpi == "Invalid UPI ID format"
MsgIdExists == "Project ID already exists. Please use a different ID."
MsgNoImage == "Project image is required"
MsgUploaded == "Project uploaded successfully"
MsgUploadError == "Error uploading project"

\* the text fields of the multipart form: req.body
BodyFields ==
  {"projectId", "name", "details", "email", "phone", "upiId", "fundingGoal"}
BodyOf(s) == [f \in BodyFields |-> s[f]]

IdleUpload ==
  [pc |-> "idle", body |-> BodyOf(Base), file |-> NoFile,
   existing |-> FALSE, doc |-> <<>>, res |-> Pending, calls |-> <<>>]

(***************************************************************************)
(* The upload route.                                                       *)
(***************************************************************************)
\* multer.diskStorage filename: Date.now() + path.extname(file.originalname)
StoredName(t, originalname) == DecimalText(t) \o ExtName(originalname)

\* upload.single("image"): the file part, if any, is written to the uploads
\* folder and described in req.file
MulterFile(t, image) ==
  IF image = undefined THEN NoFile
  ELSE [present |-> TRUE, originalname |-> image,
        filename |-> StoredName(t, image)]

\* SyncChecks with the email tested before the id
SyncChecksEmailFirst(b) ==
  IF ~ ( Truthy(b.projectId) /\ Truthy(b.name) /\ Truthy(b.details)
         /\ Truthy(b.email) /\ Truthy(b.phone) /\ Truthy(b.upiId)
         /\ Truthy(b.fundingGoal) )
  THEN Reply(400, MsgAllFields)
  ELSE IF ~ EmailRegexTest(b.email) THEN Reply(400, MsgBadEmail)
  ELSE IF ~ IdRegexTest(b.projectId) THEN Reply(400, MsgBadId)
  ELSE IF ~ PhoneRegexTest(b.phone) THEN Reply(400, MsgBadPhone)
  ELSE IF ~ UpiRegexTest(b.upiId) THEN Reply(400, MsgBadUpi)
  ELSE Pending

\* the checks of the handler that run before its first await, in order
SyncChecks(b) ==
  IF ~ ( Truthy(b.projectId) /\ Truthy(b.name) /\ Truthy(b.details)
         /\ Truthy(b.email) /\ Truthy(b.phone) /\ Truthy(b.upiId)
         /\ Truthy(b.fundingGoal) )
  THEN Reply(400, MsgAllFields)
  ELSE IF ~ IdRegexTest(b.projectId) THEN Reply(400, MsgBadId)
  ELSE IF ~ EmailRegexTest(b.email) THEN Reply(400, MsgBadEmail)
  ELSE IF ~ PhoneRegexTest(b.phone) THEN Reply(400, MsgBadPhone)
  ELSE IF ~ UpiRegexTest(b.upiId) THEN Reply(400, MsgBadUpi)
  ELSE Pending

\* Project.findOne({ projectId }) found a document
FindOne(db, id) == \E i \in 1..Len(db) : db[i].projectId = id

\* the checks after `await Project.findOne', in order
AsyncChecks(existing, file) ==
  IF existing THEN Reply(400, MsgIdExists)
  ELSE IF ~ file.present THEN Reply(400, MsgNoImage)
  ELSE Pending

\* new Project({...})
NewProject(b, file) ==
  [projectId    |-> b.projectId,
   name         |-> b.name,
   details      |-> b.details,
   image        |-> file.filename,
   contact      |-> [email |-> b.email, phone |-> b.phone, upiId |-> b.upiId],
   fundingGoal  |-> FundingGoalOf(b.fundingGoal),
   amountRaised |-> 0]

\* projectSchema: the validation mongoose runs in save()
SchemaValid(doc) ==
  /\ doc.projectId # <<>> /\ IdRegexTest(doc.projectId)
  /\ doc.name # <<>> /\ doc.details # <<>> /\ doc.image # <<>>
  /\ doc.contact.email # <<>> /\ doc.contact.phone # <<>>
  /\ doc.contact.upiId # <<>>

\* what `await newProject.save()' does on the collection: the unique index
\* on projectId refuses a second document with the id (error code 11000)
SaveError(db, doc) ==
  IF ~ SchemaValid(doc) THEN "ValidationError"
  ELSE IF FindOne(db, doc.projectId) THEN "E11000"
  ELSE "none"

\* SaveReply without the catch block's test of error code 11000 (the catch
\* block of routes/upload, which answers 500 to every error)
SaveReplyNoDuplicateBranch(err) ==
  IF err = "none" THEN Reply(201, MsgUploaded)
  ELSE Reply(500, MsgUploadError)

\* the response after save(): 201, or the catch block
SaveReply(err) ==
  IF err = "none" THEN Reply(201, MsgUploaded)
  ELSE IF err = "E11000" THEN Reply(400, MsgIdExists)
  ELSE Reply(500, MsgUploadError)

\* a request arrives at clock reading t (the clock never runs backwards);
\* multer stores its image and fills req.body, req.file
Receive(r, s, t) ==
  /\ up[r].pc = "idle"
  /\ r > 1 => up[r - 1].pc # "idle"
  /\ t >= now
  /\ now' = t
  /\ LET f == MulterFile(t, s.image) IN
     /\ up' = [up EXCEPT ![r] =
                 [@ EXCEPT !.pc = "received",
                           !.body = BodyOf(s),
                           !.file = f,
                           !.calls = IF f.present THEN <<"fileWrite">> ELSE <<>>]]
     /\ files' = IF f.present THEN files \cup {f.filename} ELSE files
  /\ UNCHANGED <<projects, authVars>>

\* the handler up to `await Project.findOne'
Validate(r) ==
  /\ up[r].pc = "received"
  /\ LET res == SyncChecks(up[r].body) IN
     up' = [up EXCEPT ![r] =
              IF res = Pending THEN [@ EXCEPT !.pc = "findOne"]
              ELSE [@ EXCEPT !.pc = "done", !.res = res]]
  /\ UNCHANGED <<now, projects, files, authVars>>

\* findOne answers; the handler runs on to `await newProject.save()'
Lookup(r) ==
  /\ up[r].pc = "findOne"
  /\ LET existingProject == FindOne(projects, up[r].body.projectId)
         res == AsyncChecks(existingProject, up[r].file)
         calls == Append(up[r].calls, "dbRead")
     IN up' = [up EXCEPT ![r] =
                 IF res = Pending
                 THEN [@ EXCEPT !.pc = "save", !.calls = calls,
                                !.existing = existingProject,
                                !.doc = <<NewProject(up[r].body, up[r].file)>>]
                 ELSE [@ EXCEPT !.pc = "done", !.calls = calls,
                                !.existing = existingProject, !.res = res]]
  /\ UNCHANGED <<now, projects, files, authVars>>

\* save() answers; the handler responds
Save(r) ==
  /\ up[r].pc = "save"
  /\ LET doc == up[r].doc[1]
         err == SaveError(projects, doc)
     IN /\ projects' = IF err = "none" THEN Append(projects, doc) ELSE projects
        /\ up' = [up EXCEPT ![r] =
                    [@ EXCEPT !.pc = "done", !.res = SaveReply(err),
                              !.calls = Append(@, "dbWrite")]]
  /\ UNCHANGED <<now, files, authVars>>

InitUpload ==
  /\ now = 0
  /\ projects = <<>>
  /\ files = {}
  /\ up = [r \in UploadIds |-> IdleUpload]

NextUpload ==
  \/ \E r \in UploadIds : \E s \in Submissions : \E t \in 0..MaxClock :
       Receive(r, s, t)
  \/ \E r \in UploadIds : Validate(r)
  \/ \E r \in UploadIds : Lookup(r)
  \/ \E r \in UploadIds : Save(r)

(***************************************************************************)
(* The identity routes.                                                    *)
(***************************************************************************)
SignupIds == 1..NumSignups

MsgSignupFields == "All fields are required"
MsgUserExists == "User already exists"
MsgSignedUp == "Signup successful"
MsgServerError == "Server error"
MsgLoginFields == "Both fields are required"
MsgInvalidLogin == "Invalid email or password"
MsgLoggedIn == "Login successful"
MsgAccessDenied == "Access denied"
MsgAccessGranted == "Access granted"
MsgInvalidToken == "Invalid token"

\* req.body of the identity routes; "" is a field that is empty or absent
\* (both are falsy, and the routes only test `!field')
Names == {"", "Ann"}
Emails == {"", "a@x.io", "b@x.io"}
Passwords == {"", "pw1", "pw2"}
BaseSignup == [name |-> "Ann", email |-> "a@x.io", password |-> "pw1"]
SignupBodies ==
  {BaseSignup}
    \cup {[BaseSignup EXCEPT !.name = n] : n \in Names}
    \cup {[BaseSignup EXCEPT !.email = e] : e \in Emails}
    \cup {[BaseSignup EXCEPT !.password = p] : p \in Passwords}

\* the salts bcrypt.hash may draw
Salts == {"s1", "s2"}

\* bcrypt.hash(password, 10) with the salt drawn: the salt, and a digest that
\* only this salt and this password give
BcryptHash(password, salt) == [salt |-> salt, digest |-> <<salt, password>>]

\* bcrypt.compare(password, hash): hash the password with the hash's salt
BcryptCompare(password, hash) == BcryptHash(password, hash.salt) = hash

\* User.findOne({ email }): the matching documents, in collection order
UsersWith(db, email) == SelectSeq(db, LAMBDA u : u.email = email)

IdleSignup ==
  [pc |-> "idle", body |-> BaseSignup, hash |-> BcryptHash("", "s1"),
   res |-> Pending]

\* the signup handler up to `await User.findOne'
SignupChecks(b) ==
  IF b.name = "" \/ b.email = "" \/ b.password = ""
  THEN Reply(400, MsgSignupFields)
  ELSE Pending

\* what `await newUser.save()' does on the collection: the unique index on
\* email refuses a second document with the email (error code 11000)
UserSaveError(db, doc) ==
  IF UsersWith(db, doc.email) # <<>> THEN "E11000" ELSE "none"

\* the response after save(): 201, or the catch block
SignupSaveReply(err) ==
  IF err = "none" THEN Reply(201, MsgSignedUp) ELSE Reply(500, MsgServerError)

SignupStart(s, b) ==
  /\ sg[s].pc = "idle"
  /\ s > 1 => sg[s - 1].pc # "idle"
  /\ LET res == SignupChecks(b) IN
     sg' = [sg EXCEPT ![s] =
              IF res = Pending THEN [@ EXCEPT !.pc = "findOne", !.body = b]
              ELSE [@ EXCEPT !.pc = "done", !.body = b, !.res = res]]
  /\ UNCHANGED <<now, uploadVars, users, issued, resp, elapsed>>

\* findOne answers; the handler hashes the password and calls save()
SignupLookup(s, salt) ==
  /\ sg[s].pc = "findOne"
  /\ sg' = [sg EXCEPT ![s] =
              IF UsersWith(users, sg[s].body.email) # <<>>
              THEN [@ EXCEPT !.pc = "done", !.res = Reply(400, MsgUserExists)]
              ELSE [@ EXCEPT !.pc = "save",
                             !.hash = BcryptHash(sg[s].body.password, salt)]]
  /\ UNCHANGED <<now, uploadVars, users, issued, resp, elapsed>>

\* save() answers; the handler responds
SignupSave(s) ==
  /\ sg[s].pc = "save"
  /\ LET doc == [id |-> s, name |-> sg[s].body.name,
                 email |-> sg[s].body.email, password |-> sg[s].hash]
         err == UserSaveError(users, doc)
     IN /\ users' = IF err = "none" THEN Append(users, doc) ELSE users
        /\ sg' = [sg EXCEPT ![s] =
                    [@ EXCEPT !.pc = "done", !.hash = IdleSignup.hash,
                              !.res = SignupSaveReply(err)]]
  /\ UNCHANGED <<now, uploadVars, issued, resp, elapsed>>

\* seconds of validity of a token: expiresIn "1h"
ExpiresIn == 3600

JwtSecret == "JWT_SECRET"
NoToken == [id |-> 0, iat |-> 0, exp |-> 0, key |-> ""]

\* jsonwebtoken's clock: Math.floor(Date.now() / 1000)
Seconds(t) == t \div 1000

\* jwt.sign({ id }, key, { expiresIn: "1h" }) at clock reading t
JwtSign(id, key, t) ==
  [id |-> id, iat |-> Seconds(t), exp |-> Seconds(t) + ExpiresIn, key |-> key]

\* JwtVerify with ignoreExpiration: only the signature is tested
JwtVerifyIgnoreExpiration(token, key, t) == token.key = key

\* jwt.verify(token, key) at clock reading t does not throw
JwtVerify(token, key, t) ==
  /\ token.key = key
  /\ ~ (Seconds(t) >= token.exp)

NoSession == [token |-> NoToken, email |-> "", at |-> 0]

NoLogin == [op |-> "none", status |-> 0, message |-> "", token |-> NoToken,
            userId |-> 0]

\* LoginReply with a message of its own for an email nobody signed up with
LoginReplyLeaky(db, email, password, t) ==
  LET found == UsersWith(db, email) IN
  IF email = "" \/ password = ""
  THEN [NoLogin EXCEPT !.op = "login", !.status = 400,
                       !.message = MsgLoginFields]
  ELSE IF found = <<>>
  THEN [NoLogin EXCEPT !.op = "login", !.status = 400,
                       !.message = "User not found"]
  ELSE IF ~ BcryptCompare(password, found[1].password)
  THEN [NoLogin EXCEPT !.op = "login", !.status = 400,
                       !.message = MsgInvalidLogin]
  ELSE [NoLogin EXCEPT !.op = "login", !.status = 200,
                       !.message = MsgLoggedIn,
                       !.token = JwtSign(found[1].id, JwtSecret, t)]

\* the response of the login route to (email, password) at clock reading t
LoginReply(db, email, password, t) ==
  LET found == UsersWith(db, email) IN
  IF email = "" \/ password = ""
  THEN [NoLogin EXCEPT !.op = "login", !.status = 400,
                       !.message = MsgLoginFields]
  ELSE IF found = <<>> \/ ~ BcryptCompare(password, found[1].password)
  THEN [NoLogin EXCEPT !.op = "login", !.status = 400,
                       !.message = MsgInvalidLogin]
  ELSE [NoLogin EXCEPT !.op = "login", !.status = 200,
                       !.message = MsgLoggedIn,
                       !.token = JwtSign(found[1].id, JwtSecret, t)]

\* the response of the protected route to the Authorization header
ProtectedReply(token, t) ==
  IF token = NoToken
  THEN [NoLogin EXCEPT !.op = "protected", !.status = 401,
                       !.message = MsgAccessDenied]
  ELSE IF ~ JwtVerify(token, JwtSecret, t)
  THEN [NoLogin EXCEPT !.op = "protected", !.status = 401,
                       !.message = MsgInvalidToken]
  ELSE [NoLogin EXCEPT !.op = "protected", !.status = 200,
                       !.message = MsgAccessGranted, !.userId = token.id]

\* the clock advances between requests, in milliseconds
ElapseSteps == {1, 999, 3599000}

\* the clock reads t at a request of the identity routes
ClockReads(t) ==
  \/ t = now /\ elapsed' = elapsed
  \/ /\ elapsed < MaxElapse
     /\ t \in {now + d : d \in ElapseSteps}
     /\ elapsed' = elapsed + 1

ClockReadings == {now} \cup {now + d : d \in ElapseSteps}

LoginEmails == Emails \cup {"c@x.io"}

Login(email, password, t) ==
  /\ ClockReads(t)
  /\ now' = t
  /\ resp' = LoginReply(users, email, password, t)
  /\ issued' = IF resp'.status = 200
               THEN [token |-> resp'.token, email |-> email, at |-> t]
               ELSE issued
  /\ UNCHANGED <<uploadVars, users, sg>>

\* the Authorization headers a caller can send: nothing, a token login
\* returned, or a token for some user signed without the server's secret
Headers(t) ==
  {NoToken, issued.token}
    \cup {JwtSign(u.id, "forger", t) : u \in {users[i] : i \in 1..Len(users)}}
    \cup {[id |-> 1, iat |-> 0, exp |-> 0, key |-> "malformed"]}

Protected(token, t) ==
  /\ ClockReads(t)
  /\ now' = t
  /\ resp' = ProtectedReply(token, t)
  /\ UNCHANGED <<uploadVars, users, sg, issued>>

InitAuth ==
  /\ users = <<>>
  /\ sg = [s \in SignupIds |-> IdleSignup]
  /\ issued = NoSession
  /\ resp = NoLogin
  /\ elapsed = 0

\* signup and login requests, at one clock reading
NextSignup ==
  \/ \E s \in SignupIds : \E b \in SignupBodies : SignupStart(s, b)
  \/ \E s \in SignupIds : \E salt \in Salts : SignupLookup(s, salt)
  \/ \E s \in SignupIds : SignupSave(s)
  \/ \E e \in LoginEmails : \E p \in Passwords : Login(e, p, now)

\* login and protected requests, as time passes
NextToken ==
  \/ \E e \in LoginEmails : \E p \in Passwords : \E t \in ClockReadings :
       Login(e, p, t)
  \/ \E t \in ClockReadings : \E h \in Headers(t) : Protected(h, t)

\* the User collection of a server that two users have signed up with
Registered ==
  << [id |-> NumSignups + 1, name |-> "Ann", email |-> "a@x.io",
      password |-> BcryptHash("pw1", "s1")],
     [id |-> NumSignups + 2, name |-> "Ann", email |-> "b@x.io",
      password |-> BcryptHash("pw2", "s2")] >>

Init == InitUpload /\ InitAuth

InitRegistered ==
  /\ InitUpload
  /\ users = Registered
  /\ sg = [s \in SignupIds |-> IdleSignup]
  /\ issued = NoSession
  /\ resp = NoLogin
  /\ elapsed = 0

Next == NextUpload \/ NextSignup \/ NextToken

Spec == Init /\ [][Next]_vars

\* the campaign component alone
SpecUpload == Init /\ [][NextUpload]_vars

\* signup and login alone
SpecSignup == Init /\ [][NextSignup]_vars

\* login and the protected check alone, on a server with registered users
SpecToken == InitRegistered /\ [][NextToken]_vars

(***************************************************************************)
(* The campaign component: properties.                                     *)
(***************************************************************************)
Arrived(r) == up[r].pc # "idle"
Done(r) == up[r].pc = "done"

\* check k of the seven, on request r; check 6 is the answer findOne gave
FailsCheck(r, k) ==
  LET b == up[r].body IN
  CASE k = 1 -> \E f \in BodyFields : ~ Truthy(b[f])
    [] k = 2 -> ~ IdRegexTest(b.projectId)
    [] k = 3 -> ~ EmailRegexTest(b.email)
    [] k = 4 -> ~ PhoneRegexTest(b.phone)
    [] k = 5 -> ~ UpiRegexTest(b.upiId)
    [] k = 6 -> up[r].existing
    [] k = 7 -> ~ up[r].file.present

CheckMessage(k) ==
  CASE k = 1 -> MsgAllFields
    [] k = 2 -> MsgBadId
    [] k = 3 -> MsgBadEmail
    [] k = 4 -> MsgBadPhone
    [] k = 5 -> MsgBadUpi
    [] k = 6 -> MsgIdExists
    [] k = 7 -> MsgNoImage

FailedChecks(r) == {k \in 1..7 : FailsCheck(r, k)}
FirstFailed(r) ==
  CHOOSE k \in FailedChecks(r) : \A j \in FailedChecks(r) : k <= j

RecordsWith(id) == {i \in 1..Len(projects) : projects[i].projectId = id}

\* r and q are the only requests that carry r's projectId
OnlyPair(r, q) ==
  \A o \in UploadIds \ {r, q} :
    Arrived(o) => up[o].body.projectId # up[r].body.projectId

\* C1: of two submissions with the same projectId, valid fields and an image
\* (and no third one with that id), once both are answered exactly one got
\* 201 and created the one record, and the other got 400 "Project ID already
\* exists"; whatever the order of their findOne and save steps.
C1_ExactlyOneSucceeds ==
  \A r \in UploadIds : \A q \in UploadIds \ {r} :
    ( /\ Done(r) /\ Done(q)
      /\ up[r].body.projectId = up[q].body.projectId
      /\ FailedChecks(r) \subseteq {6} /\ FailedChecks(q) \subseteq {6}
      /\ OnlyPair(r, q) )
    => /\ \E w \in {r, q} : \E l \in {r, q} \ {w} :
            /\ up[w].res = Reply(201, MsgUploaded)
            /\ up[l].res = Reply(400, MsgIdExists)
       /\ Cardinality(RecordsWith(up[r].body.projectId)) = 1

\* both requests found no project and both called save()
C1_Witness ==
  \E r \in UploadIds : \E q \in UploadIds \ {r} :
    /\ Done(r) /\ Done(q)
    /\ up[r].body.projectId = up[q].body.projectId
    /\ up[r].calls = <<"fileWrite", "dbRead", "dbWrite">>
    /\ up[q].calls = <<"fileWrite", "dbRead", "dbWrite">>
    /\ up[r].res = Reply(201, MsgUploaded)
    /\ up[q].res = Reply(400, MsgIdExists)

\* C2: the error of an answered submission is that of the first of the seven
\* checks it fails, and a submission is accepted only if it fails none; the
\* answer findOne gave (check 6) is true only of an id the collection holds.
C2_FirstFailingCheck ==
  \A r \in UploadIds :
    /\ up[r].existing => RecordsWith(up[r].body.projectId) # {}
    /\ Done(r) =>
         /\ FailedChecks(r) # {} =>
              up[r].res = Reply(400, CheckMessage(FirstFailed(r)))
         /\ up[r].res.status = 201 => FailedChecks(r) = {}

\* a submission whose id exists and that has no image gets the conflict error
C2_Witness ==
  \E r \in UploadIds :
    /\ Done(r)
    /\ FailedChecks(r) = {6, 7}
    /\ up[r].res = Reply(400, MsgIdExists)

\* C3: a submission whose projectId does not match the pattern is answered
\* without any storage call (database read, database write, image write).
C3_NoStorageCallBeforeRejection ==
  \A r \in UploadIds :
    (Done(r) /\ ~ IdRegexTest(up[r].body.projectId)) =>
      /\ up[r].res.status = 400
      /\ up[r].calls = <<>>

\* r is answered, valid but for its fundingGoal, and its id was not taken
OtherwiseValid(r) ==
  /\ Done(r)
  /\ \A f \in BodyFields \ {"fundingGoal"} : Truthy(up[r].body[f])
  /\ FailedChecks(r) \subseteq {1}
  /\ up[r].res # Reply(400, MsgIdExists)

\* r got 201 and the collection holds a record with its id and fundingGoal g
StoredWithGoal(r, g) ==
  /\ up[r].res.status = 201
  /\ \E i \in RecordsWith(up[r].body.projectId) :
       projects[i].fundingGoal = g /\ projects[i].amountRaised = 0

C7_PositiveFundingGoal ==
  \A i \in 1..Len(projects) : projects[i].fundingGoal > 0

\* the file is in the uploads folder, no record refers to it and no request
\* that stored it is still being handled
Orphan(name) ==
  /\ name \in files
  /\ \A i \in 1..Len(projects) : projects[i].image # name
  /\ \A r \in UploadIds :
       (Arrived(r) /\ up[r].file.filename = name) => Done(r)

\* C9: an image is in the uploads folder only for a submission that passed
\* all seven checks, and an orphan was stored by a submission that passed
\* them and then failed to be saved.
C9_ImageOnlyAfterChecks ==
  \A r \in UploadIds :
    /\ (Done(r) /\ up[r].file.filename \in files) => FailedChecks(r) = {}
    /\ (Done(r) /\ up[r].file.present /\ Orphan(up[r].file.filename)) =>
         up[r].calls = <<"fileWrite", "dbRead", "dbWrite">>

\* C10: two requests that store an image store it under different names, and
\* no two records refer to the same image file.
C10_DistinctStoredNames ==
  /\ \A r \in UploadIds : \A q \in UploadIds \ {r} :
       (up[r].file.present /\ up[q].file.present) =>
         up[r].file.filename # up[q].file.filename
  /\ \A i \in 1..Len(projects) : \A j \in 1..Len(projects) :
       i # j => projects[i].image # projects[j].image

(***************************************************************************)
(* The identity component: properties.                                     *)
(***************************************************************************)
SignedUp(s) == sg[s].pc = "done" /\ sg[s].res = Reply(201, MsgSignedUp)

\* C8: no two users have the same email, and a signup request with all its
\* fields that does not create a user is answered 400 "User already exists".
C8_UniqueEmailConflict ==
  /\ \A i \in 1..Len(users) : \A j \in 1..Len(users) :
       i # j => users[i].email # users[j].email
  /\ \A s \in SignupIds :
       (sg[s].pc = "done" /\ SignupChecks(sg[s].body) = Pending
          /\ ~ SignedUp(s))
       => sg[s].res = Reply(400, MsgUserExists)

\* a signup with this email and password has succeeded
Credentials(e, p) ==
  \E s \in SignupIds :
    SignedUp(s) /\ sg[s].body.email = e /\ sg[s].body.password = p

\* no signup with this email has succeeded, or one has with another password
NotCredentials(e, p) ==
  \/ \A s \in SignupIds : SignedUp(s) => sg[s].body.email # e
  \/ \E s \in SignupIds :
       SignedUp(s) /\ sg[s].body.email = e /\ sg[s].body.password # p

\* C4 as stated: a login with the credentials of a successful signup gets a
\* token, and a login with an unknown email or a wrong password gets 400
\* "Invalid email or password".
C4_AsStated ==
  [][ \A e \in LoginEmails : \A p \in Passwords :
        Login(e, p, now) =>
          /\ Credentials(e, p) =>
               resp'.status = 200 /\ resp'.token # NoToken
          /\ NotCredentials(e, p) =>
               resp'.status = 400 /\ resp'.message = MsgInvalidLogin ]_vars

\* C4 amended: a login with the credentials of a successful signup gets a
\* token; a login with a non-empty email and a non-empty password, the email
\* unknown or the password wrong, gets 400 "Invalid email or password" in
\* both cases; a login with an empty email or password gets 400 "Both fields
\* are required", whether or not the email is known.
C4_LoginAfterSignup ==
  [][ \A e \in LoginEmails : \A p \in Passwords :
        Login(e, p, now) =>
          /\ Credentials(e, p) =>
               resp'.status = 200 /\ resp'.token # NoToken
          /\ (NotCredentials(e, p) /\ e # "" /\ p # "") =>
               resp'.status = 400 /\ resp'.message = MsgInvalidLogin
          /\ (e = "" \/ p = "") =>
               resp'.status = 400 /\ resp'.message = MsgLoginFields ]_vars

\* a login after a successful signup was answered with a token
C4_Witness ==
  /\ \E s \in SignupIds : SignedUp(s)
  /\ resp.op = "login" /\ resp.status = 200 /\ resp.token # NoToken
  /\ Credentials(issued.email, "pw1")

\* C5: the protected check answers 200 with the user's id to the token login
\* returned at clock reading `at' while the clock's second is before the
\* second of `at' plus 3600, and 401 from then on; it answers 401 to no
\* header and to a token login did not return.
C5_TokenWindow ==
  [][ \A t \in ClockReadings : \A h \in Headers(t) :
        Protected(h, t) =>
          IF h # NoToken /\ h = issued.token
          THEN IF Seconds(t) < Seconds(issued.at) + 3600
               THEN /\ resp'.status = 200
                    /\ resp'.userId = UsersWith(users, issued.email)[1].id
               ELSE resp'.status = 401
          ELSE resp'.status = 401 ]_vars

\* the token was accepted in the last second of its window
C5_Witness ==
  /\ issued.token # NoToken
  /\ resp.op = "protected" /\ resp.status = 200
  /\ resp.userId = UsersWith(users, issued.email)[1].id
  /\ Seconds(now) = Seconds(issued.at) + 3599

====
